---- MODULE Spec2Model ----
(***************************************************************************)
(* Model of auto-commit.py: the change-staging-and-message pipeline of     *)
(* main() with the text functions it uses.  Text is a sequence of          *)
(* one-character strings; the repository is, per file, the content in      *)
(* HEAD, in the index and in the working tree (0 = the file is absent).    *)
(***************************************************************************)
EXTENDS Integers, Sequences, FiniteSets, TLC

\* ------------------------------------------------------------------ bounds
NumFiles == 2
MaxMsgLen == 3
MaxDocLen == 3

\* ------------------------------------------------------------------ text
NL == "\n"
TAB == "\t"
HASH == "#"

\* str.strip(): the characters Python treats as whitespace (of the alphabet used)
IsSpace(c) == c \in {" ", NL, TAB, "\r"}

RECURSIVE LStrip(_)
LStrip(s) == IF s # <<>> /\ IsSpace(Head(s)) THEN LStrip(Tail(s)) ELSE s

RECURSIVE RStrip(_)
RStrip(s) ==
  IF s # <<>> /\ IsSpace(s[Len(s)]) THEN RStrip(SubSeq(s, 1, Len(s) - 1)) ELSE s

StripNone(s) == s
Strip(text) == CHOOSE r \in {RStrip(LStrip(s)) : s \in {text}} : TRUE

\* str.lower() on the letters that occur in answers
LowerChar(c) == IF c = "Y" THEN "y" ELSE IF c = "N" THEN "n" ELSE c
Lower(s) == [i \in 1..Len(s) |-> LowerChar(s[i])]

\* position of the first newline of s, 0 if there is none
FirstNL(s) ==
  IF \E i \in 1..Len(s) : s[i] = NL
  THEN CHOOSE i \in 1..Len(s) : s[i] = NL /\ \A j \in 1..(i - 1) : s[j] # NL
  ELSE 0

\* f.readlines(): the lines of text, each with its newline
\* (s is bound to the value of text, so that the text is evaluated once a call)
RECURSIVE ReadLines(_)
ReadLines(text) ==
  CHOOSE ls \in
    { IF s = <<>> THEN <<>>
      ELSE LET k == FirstNL(s)
           IN IF k = 0 THEN <<s>>
              ELSE <<SubSeq(s, 1, k)>> \o ReadLines(SubSeq(s, k + 1, Len(s)))
      : s \in {text} } : TRUE

\* str.splitlines(): the lines of text without their newlines
RECURSIVE SplitLines(_)
SplitLines(text) ==
  CHOOSE ls \in
    { IF s = <<>> THEN <<>>
      ELSE LET k == FirstNL(s)
           IN IF k = 0 THEN <<s>>
              ELSE <<SubSeq(s, 1, k - 1)>> \o SplitLines(SubSeq(s, k + 1, Len(s)))
      : s \in {text} } : TRUE

\* "".join(lines)
RECURSIVE Join(_)
Join(ls) == IF ls = <<>> THEN <<>> ELSE Head(ls) \o Join(Tail(ls))

\* line.startswith("#")
StartsWithHash(line) == line # <<>> /\ line[1] = HASH

\* sub in s
Contains(s, sub) ==
  \E i \in 0..(Len(s) - Len(sub)) : SubSeq(s, i + 1, i + Len(sub)) = sub

\* all texts over alphabet A of length at most n
RECURSIVE TextsUpTo(_, _)
TextsUpTo(A, n) ==
  IF n = 0 THEN {<<>>}
  ELSE LET T == TextsUpTo(A, n - 1)
       IN T \cup {Append(t, c) : t \in T, c \in A}

\* ------------------------------------------------------------------ repository
Files == 1..NumFiles
Digits == <<"1", "2", "3", "4", "5", "6", "7", "8", "9">>
FileName(f) == <<"f", Digits[f]>>

\* ascending list of a set of files (git lists paths in sorted order)
RECURSIVE SortedSeq(_)
SortedSeq(S) ==
  IF S = {} THEN <<>>
  ELSE LET m == CHOOSE x \in S : \A y \in S : x <= y
       IN <<m>> \o SortedSeq(S \ {m})

Range(s) == {s[i] : i \in 1..Len(s)}

\* repo.untracked_files: in the working tree, not in the index
UntrackedOf(idx, wt) == {f \in Files : idx[f] = 0 /\ wt[f] # 0}
\* repo.index.diff(None): in the index, working tree differs (modified or removed)
UnstagedOf(idx, wt) == {f \in Files : idx[f] # 0 /\ wt[f] # idx[f]}
\* git diff --cached --name-only
CachedOf(hd, idx) == {f \in Files : hd[f] # idx[f]}
\* git diff --cached --diff-filter=D --name-only
CachedDeletedOf(hd, idx) == {f \in Files : hd[f] # 0 /\ idx[f] = 0}
\* repo.is_dirty(untracked_files=True)
IsDirtyAlways(hd, idx, wt) == TRUE
IsDirty(hd, idx, wt) ==
  CachedOf(hd, idx) # {} \/ UnstagedOf(idx, wt) # {} \/ UntrackedOf(idx, wt) # {}

\* git add --all
AddAll(idx, wt) == wt
\* git add <paths>
AddFiles(idx, wt, paths) == [f \in Files |-> IF f \in paths THEN wt[f] ELSE idx[f]]

\* get_staged_and_deleted_files: <<staged_non_deleted, deleted>>
StagedAndDeletedUnfiltered(hd, idx) ==
  <<SortedSeq(CachedOf(hd, idx)), SortedSeq(CachedDeletedOf(hd, idx))>>
StagedAndDeleted(hd, idx) ==
  LET staged == SortedSeq(CachedOf(hd, idx))
      deleted == SortedSeq(CachedDeletedOf(hd, idx))
  IN <<SelectSeq(staged, LAMBDA p : p \notin Range(deleted)), deleted>>

\* get_diff_for_file: staged diff of one file (header, removed line, added line)
DiffOf(hd, idx, f) ==
  IF hd[f] = idx[f] THEN <<>>
  ELSE <<"d", " ">> \o FileName(f)
       \o (IF hd[f] # 0 THEN <<NL, "-", Digits[hd[f]]>> ELSE <<>>)
       \o (IF idx[f] # 0 THEN <<NL, "+", Digits[idx[f]]>> ELSE <<>>)

\* the keys of a dict built from the list fs: each path once, first place kept
RECURSIVE DictKeys(_)
DictKeys(fs) ==
  IF fs = <<>> THEN <<>>
  ELSE LET init == DictKeys(SubSeq(fs, 1, Len(fs) - 1))
       IN IF fs[Len(fs)] \in Range(init) THEN init ELSE Append(init, fs[Len(fs)])

\* the ordered mapping file -> diff main() builds, a list of <<file, diff>>
FileDiffs(hd, idx, fs) ==
  LET ks == DictKeys(fs)
  IN [i \in 1..Len(ks) |-> <<ks[i], DiffOf(hd, idx, ks[i])>>]

\* the states one file can be in: <<HEAD, index, working tree>>
FileStates ==
  {t \in (0..1) \X (0..2) \X (0..2) :
     /\ t[1] = 0 => t[2] <= 1
     /\ (t[1] = 0 /\ t[2] = 0) => t[3] <= 1}

\* ------------------------------------------------------------------ generation
\* the fixed fallback message "chore: update changes"
FALLBACK == <<"c", "h", "o", "r", "e", ":", " ", "u", "p", "d", "a", "t", "e", " ", "c", "h", "a", "n", "g", "e", "s">>

MARK429 == <<"4", "2", "9">>
MARKRES == <<"R", "E", "S", "O", "U", "R", "C", "E", "_", "E", "X", "H", "A", "U", "S", "T", "E", "D">>

\* texts of the exceptions a backend call raises
ErrTexts ==
  { <<"H", "T", "T", "P", " ">> \o MARK429,
    MARKRES \o <<" ", "q", "u", "o", "t", "a">>,
    <<"t", "i", "m", "e", "o", "u", "t">>,
    <<"4", "2", " ", "9">>,
    <<"r", "e", "s", "o", "u", "r", "c", "e", "_", "e", "x", "h">> }

\* "429" in str(exc) or "RESOURCE_EXHAUSTED" in str(exc)
IsQuotaOnly429(t) == Contains(t, MARK429)
IsQuotaAlways(t) == TRUE
IsQuota(t) == Contains(t, MARK429) \/ Contains(t, MARKRES)

\* length of the run of newlines s starts with
RECURSIVE NLRun(_)
NLRun(s) == IF s # <<>> /\ Head(s) = NL THEN 1 + NLRun(Tail(s)) ELSE 0

\* re.sub(r"\n{3,}", "\n\n", s)
RECURSIVE CollapseThree(_)
CollapseThree(s) ==
  IF s = <<>> THEN <<>>
  ELSE IF NLRun(s) >= 3 THEN <<NL, NL>> \o CollapseThree(SubSeq(s, 4, Len(s)))
  ELSE <<Head(s)>> \o CollapseThree(Tail(s))
RECURSIVE Collapse(_)
Collapse(s) ==
  IF s = <<>> THEN <<>>
  ELSE LET r == NLRun(s)
       IN IF r = 0 THEN <<Head(s)>> \o Collapse(Tail(s))
          ELSE (IF r >= 3 THEN <<NL, NL>> ELSE SubSeq(s, 1, r))
               \o Collapse(SubSeq(s, r + 1, Len(s)))

\* what a backend call gives: a response text (empty for none) or an exception
Outcomes(texts, errs) ==
  [kind : {"ok"}, text : texts] \cup [kind : {"err"}, text : errs]

\* generate_commit_message after the backend call: "raise" or the message
GenResult(o) ==
  IF o.kind = "err"
  THEN IF IsQuota(o.text) THEN [raise |-> TRUE, msg |-> <<>>]
       ELSE [raise |-> FALSE, msg |-> FALLBACK]
  ELSE LET m == Strip(o.text)
       IN IF m = <<>> THEN [raise |-> FALSE, msg |-> FALLBACK]
          ELSE [raise |-> FALSE, msg |-> Collapse(m)]

\* ------------------------------------------------------------------ draft
\* the three f.write of instructions (their texts shortened to one letter)
TemplateHeader ==
  <<NL, NL, HASH, " ", "B", NL>> \o <<HASH, " ", "m", NL>>
  \o <<HASH, NL, HASH, " ", "Z", ":", NL>>

RECURSIVE ModifiedLines(_)
ModifiedLines(fs) ==
  IF fs = <<>> THEN <<>>
  ELSE <<HASH, TAB>> \o FileName(Head(fs)) \o <<NL>> \o ModifiedLines(Tail(fs))

RECURSIVE DeletedLines(_)
DeletedLines(fs) ==
  IF fs = <<>> THEN <<>>
  ELSE <<HASH, TAB>> \o FileName(Head(fs)) \o <<" ", "(", "g", ")", NL>>
       \o DeletedLines(Tail(fs))

RECURSIVE CommentLines(_)
CommentLines(ls) ==
  IF ls = <<>> THEN <<>>
  ELSE <<HASH, " ">> \o Head(ls) \o <<NL>> \o CommentLines(Tail(ls))

\* file_diffs is the ordered mapping, a list of <<file, diff>>
RECURSIVE DiffBlocks(_)
DiffBlocks(ds) ==
  IF ds = <<>> THEN <<>>
  ELSE <<HASH, " ", "C", " ">> \o FileName(Head(ds)[1]) \o <<":", NL>>
       \o CommentLines(SplitLines(Head(ds)[2])) \o <<HASH, NL>>
       \o DiffBlocks(Tail(ds))

\* everything write_commit_template writes after the message
CommentBlock(modified, deleted, diffs) ==
  TemplateHeader \o ModifiedLines(modified)
  \o (IF deleted # <<>>
      THEN <<HASH, NL, HASH, " ", "G", ":", NL>> \o DeletedLines(deleted)
      ELSE <<>>)
  \o <<HASH, NL>> \o DiffBlocks(diffs)

\* write_commit_template: the content of the scratch document
WriteTemplate(msg, modified, deleted, diffs) ==
  msg \o CommentBlock(modified, deleted, diffs)

\* "".join(line for line in lines if not line.startswith("#")).strip()
ParseDraftNoStrip(lines) ==
  Join(SelectSeq(lines, LAMBDA l : ~StartsWithHash(l)))
ParseDraft(lines) ==
  Strip(Join(SelectSeq(lines, LAMBDA l : ~StartsWithHash(l))))

\* ------------------------------------------------------------------ state
VARIABLES
  pc,                  \* where main() stands
  head, index, worktree,      \* the repository
  index0,              \* history: the index when the run started
  untracked_files, unstaged_files,   \* the lists main() takes before negotiating
  ansUntracked, ansUnstaged,  \* history: the answers to the staging prompts
  staged_files, deleted_files, file_diffs,
  provider,            \* AI_PROVIDER
  genCalls, genOutcome, backend,     \* history of the backend call
  genErr,              \* history: the text of the exception the backend raised
  commit_message,
  tmpExists, tmpCreated, tmpContent, \* the scratch document
  editorCalls, lines, final_commit_message,
  docRead,             \* history: the document was read back
  user_input,          \* the answer to the final confirmation
  commitCalls, pushCalls,
  commitStatus,        \* exit status of git commit, -1 while none has run
  shown,               \* history: the prompts shown
  out,                 \* history: the notices printed
  exc,                 \* history: an exception ended the run
  head0,               \* history: HEAD when the run started
  in_repo,             \* history: find_git_root found a repository
  api_key,             \* history: the API key of the selected provider
  genBlank,            \* history: the backend answered with whitespace only
  text_in, text_out    \* a response text and what the gateway makes of it

repoV == <<head, index, worktree, index0>>
stageV == <<untracked_files, unstaged_files, ansUntracked, ansUnstaged>>
inspV == <<staged_files, deleted_files, file_diffs, provider>>
genV == <<genCalls, genOutcome, backend, genErr, commit_message>>
tmpV == <<tmpExists, tmpCreated, tmpContent>>
editV == <<editorCalls, lines, final_commit_message, docRead>>
endV == <<user_input, commitCalls, commitStatus, pushCalls>>
ioV == <<shown, out, exc>>
auxV == <<head0, in_repo, api_key, genBlank, text_in, text_out>>
vars == <<pc, repoV, stageV, inspV, genV, tmpV, editV, endV, ioV, auxV>>

\* the inputs of the pipeline specification
Answers ==
  { <<"y">>, <<"Y">>, <<" ", "y", NL>>, <<"n">>, <<"y", "e", "s">>, <<>> }
ValidProviders == {"gemini", "zai", "openai"}
Providers == ValidProviders \cup {"svn"}
MainTexts == { <<"o", "k">>, <<HASH, "1">> }
MainErrs == { <<"H", "T", "T", "P", " ">> \o MARK429, <<"t", "i", "m", "e", "o", "u", "t">> }
MainDocs == { <<>>, <<"f", "i", "x", NL>> }

\* the values of the variables main() has not set yet
Blank ==
  /\ untracked_files = <<>> /\ unstaged_files = <<>>
  /\ ansUntracked = "none" /\ ansUnstaged = "none"
  /\ staged_files = <<>> /\ deleted_files = <<>> /\ file_diffs = <<>>
  /\ provider = "unset"
  /\ genCalls = 0 /\ genOutcome = "none" /\ backend = "none" /\ genErr = <<>>
  /\ commit_message = <<>>
  /\ tmpExists = FALSE /\ tmpCreated = FALSE /\ tmpContent = <<>>
  /\ editorCalls = 0 /\ lines = <<>> /\ final_commit_message = <<>>
  /\ docRead = FALSE
  /\ user_input = <<>>
  /\ commitCalls = 0 /\ commitStatus = -1 /\ pushCalls = 0
  /\ shown = {} /\ out = {} /\ exc = FALSE
  /\ in_repo = "unknown" /\ api_key = "unread" /\ genBlank = FALSE
  /\ text_out = <<>>

Init ==
  /\ pc = "start"
  /\ \E r \in [Files -> FileStates] :
       /\ head = [f \in Files |-> r[f][1]]
       /\ index = [f \in Files |-> r[f][2]]
       /\ worktree = [f \in Files |-> r[f][3]]
  /\ index0 = index /\ head0 = head
  /\ text_in = <<>>
  /\ Blank

\* the finally clause of main(): os.remove if the scratch document exists
FinallyKeep(exists) == exists
Finally(exists) == FALSE

\* main() up to the first staging prompt
Start ==
  /\ pc = "start"
  /\ UNCHANGED <<head0, api_key, genBlank, text_in, text_out>>
  /\ \E isRepo \in BOOLEAN :
       /\ in_repo' = IF isRepo THEN "yes" ELSE "no"
       /\ IF ~isRepo
          THEN /\ out' = out \cup {"NoRepo"}
               /\ pc' = "done"
               /\ UNCHANGED stageV
          ELSE IF ~IsDirty(head, index, worktree)
          THEN /\ out' = out \cup {"NoChanges"}
               /\ pc' = "done"
               /\ UNCHANGED stageV
          ELSE /\ untracked_files' = SortedSeq(UntrackedOf(index, worktree))
               /\ unstaged_files' = SortedSeq(UnstagedOf(index, worktree))
               /\ pc' = "stage1"
               /\ UNCHANGED <<ansUntracked, ansUnstaged, out>>
  /\ UNCHANGED <<repoV, inspV, genV, tmpV, editV, endV, shown, exc>>

\* user_input == "y" after input(...).strip().lower()
SaysYesLoose(ans) == Lower(Strip(ans)) # <<"n">>
SaysYes(ans) == Lower(Strip(ans)) = <<"y">>

\* prompt_to_stage with a non-empty list: the index it leaves
PromptToStage(idx, wt, files, add_all, ans) ==
  IF SaysYes(ans)
  THEN IF add_all THEN AddAll(idx, wt) ELSE AddFiles(idx, wt, Range(files))
  ELSE idx

\* prompt_to_stage(repo, untracked_files, "Untracked Files", add_all=True)
StageUntracked ==
  /\ pc = "stage1"
  /\ UNCHANGED auxV
  /\ \/ /\ untracked_files = <<>>
        /\ UNCHANGED <<index, ansUntracked, shown>>
     \/ /\ untracked_files # <<>>
        /\ \E ans \in Answers :
             /\ index' = PromptToStage(index, worktree, untracked_files, TRUE, ans)
             /\ ansUntracked' = IF SaysYes(ans) THEN "y" ELSE "n"
        /\ shown' = shown \cup {"untracked"}
  /\ pc' = "stage2"
  /\ UNCHANGED <<head, worktree, index0, untracked_files, unstaged_files,
                 ansUnstaged, inspV, genV, tmpV, editV, endV, out, exc>>

\* prompt_to_stage(repo, unstaged_files, "unstaged Dateien")
StageUnstaged ==
  /\ pc = "stage2"
  /\ UNCHANGED auxV
  /\ \/ /\ unstaged_files = <<>>
        /\ UNCHANGED <<index, ansUnstaged, shown>>
     \/ /\ unstaged_files # <<>>
        /\ \E ans \in Answers :
             /\ index' = PromptToStage(index, worktree, unstaged_files, FALSE, ans)
             /\ ansUnstaged' = IF SaysYes(ans) THEN "y" ELSE "n"
        /\ shown' = shown \cup {"unstaged"}
  /\ pc' = "inspect"
  /\ UNCHANGED <<head, worktree, index0, untracked_files, unstaged_files,
                 ansUntracked, inspV, genV, tmpV, editV, endV, out, exc>>

\* not staged_files and not deleted_files
NothingStagedUnchecked(staged, deleted) == FALSE
NothingStaged(staged, deleted) == staged = <<>> /\ deleted = <<>>

\* the re-inspection after the negotiation
Inspect ==
  /\ pc = "inspect"
  /\ UNCHANGED auxV
  /\ LET sd == StagedAndDeleted(head, index)
     IN /\ staged_files' = sd[1]
        /\ deleted_files' = sd[2]
        /\ IF NothingStaged(sd[1], sd[2])
           THEN out' = out \cup {"NoStaged"} /\ pc' = "done"
           ELSE out' = out /\ pc' = "provider"
  /\ UNCHANGED <<repoV, stageV, file_diffs, provider, genV, tmpV, editV, endV,
                 shown, exc>>

\* AI_PROVIDER not in {"gemini", "zai", "openai"}
CheckProvider(provs) ==
  /\ pc = "provider"
  /\ UNCHANGED auxV
  /\ \E p \in provs :
       /\ provider' = p
       /\ IF p \notin ValidProviders
          THEN out' = out \cup {"BadProvider"} /\ pc' = "done"
          ELSE out' = out /\ pc' = "clients"
  /\ UNCHANGED <<repoV, stageV, staged_files, deleted_files, file_diffs, genV,
                 tmpV, editV, endV, shown, exc>>

\* os.getenv for an API key: not set, set to the empty string, set
KeyValues == {"none", "", "k"}

\* the key create_ai_clients looks at for the provider
KeyForGemini(env, p) == env["gemini"]
KeyFor(env, p) == env[p]

\* create_ai_clients: ValueError when the provider's key is not set or empty
CreateClients ==
  /\ pc = "clients"
  /\ UNCHANGED <<head0, in_repo, genBlank, text_in, text_out>>
  /\ \E env \in [ValidProviders -> KeyValues] :
       /\ api_key' = env[provider]
       /\ IF KeyFor(env, provider) \notin {"none", ""}
          THEN out' = out /\ pc' = "diffs"
          ELSE out' = out \cup {"NoKey"} /\ pc' = "done"
  /\ UNCHANGED <<repoV, stageV, inspV, genV, tmpV, editV, endV, shown, exc>>

\* file_diffs = {file: get_diff_for_file(repo, file) for file in staged + deleted}
CollectDiffs ==
  /\ pc = "diffs"
  /\ UNCHANGED auxV
  /\ file_diffs' = FileDiffs(head, index, staged_files \o deleted_files)
  /\ pc' = "generate"
  /\ UNCHANGED <<repoV, stageV, staged_files, deleted_files, provider, genV,
                 tmpV, editV, endV, ioV>>

\* generate_commit_message and the two lines of main() around it
Generate(texts, errs) ==
  /\ pc = "generate"
  /\ UNCHANGED <<head0, in_repo, api_key, text_in, text_out>>
  /\ genCalls' = genCalls + 1
  /\ backend' = IF provider = "gemini" THEN "native" ELSE "compat"
  /\ \E o \in Outcomes(texts, errs) :
       LET r == GenResult(o)
       IN /\ genErr' = IF o.kind = "err" THEN o.text ELSE <<>>
          /\ genBlank' = (o.kind = "ok" /\ \A i \in 1..Len(o.text) : IsSpace(o.text[i]))
          /\ IF r.raise
             THEN /\ genOutcome' = "quota"
                  /\ out' = out \cup {"Quota"}
                  /\ pc' = "done"
                  /\ UNCHANGED commit_message
             ELSE /\ genOutcome' = IF o.kind = "err" THEN "other" ELSE "ok"
                  /\ out' = IF o.kind = "err" THEN out \cup {"GenError"} ELSE out
                  /\ commit_message' = IF r.msg = <<>> THEN FALLBACK ELSE r.msg
                  /\ pc' = "mktemp"
  /\ UNCHANGED <<repoV, stageV, inspV, tmpV, editV, endV, shown, exc>>

\* tempfile.NamedTemporaryFile(delete=False, suffix=".txt")
MkTemp ==
  /\ pc = "mktemp"
  /\ UNCHANGED auxV
  /\ tmpExists' = TRUE /\ tmpCreated' = TRUE /\ tmpContent' = <<>>
  /\ pc' = "write"
  /\ UNCHANGED <<repoV, stageV, inspV, genV, editV, endV, ioV>>

\* write_commit_template, or the exception it raises
WriteDraft ==
  /\ pc = "write"
  /\ UNCHANGED auxV
  /\ \/ /\ tmpContent' =
             WriteTemplate(commit_message, staged_files, deleted_files, file_diffs)
        /\ pc' = "editor"
        /\ UNCHANGED <<tmpExists, exc>>
     \/ /\ exc' = TRUE
        /\ tmpExists' = Finally(tmpExists)
        /\ pc' = "done"
        /\ UNCHANGED tmpContent
  /\ UNCHANGED <<repoV, stageV, inspV, genV, tmpCreated, editV, endV, shown, out>>

\* subprocess.call([editor, tmp_path]): what the user leaves behind
Editor(docs) ==
  /\ pc = "editor"
  /\ UNCHANGED auxV
  /\ editorCalls' = editorCalls + 1
  /\ \/ /\ pc' = "parse"
        /\ UNCHANGED <<tmpExists, tmpContent, exc>>
     \/ /\ \E d \in docs, keep \in BOOLEAN :
             tmpContent' =
               IF keep
               THEN d \o CommentBlock(staged_files, deleted_files, file_diffs)
               ELSE d
        /\ pc' = "parse"
        /\ UNCHANGED <<tmpExists, exc>>
     \/ /\ tmpExists' = FALSE
        /\ pc' = "parse"
        /\ UNCHANGED <<tmpContent, exc>>
     \/ /\ exc' = TRUE
        /\ tmpExists' = Finally(tmpExists)
        /\ pc' = "done"
        /\ UNCHANGED tmpContent
  /\ UNCHANGED <<repoV, stageV, inspV, genV, tmpCreated, lines,
                 final_commit_message, docRead, endV, shown, out>>

\* re-read the document, drop the comment lines, rewrite it with the message
Parse ==
  /\ pc = "parse"
  /\ UNCHANGED auxV
  /\ IF ~tmpExists
     THEN /\ exc' = TRUE
          /\ tmpExists' = Finally(tmpExists)
          /\ pc' = "done"
          /\ UNCHANGED <<tmpContent, lines, final_commit_message, docRead, out>>
     ELSE /\ lines' = ReadLines(tmpContent)
          /\ docRead' = TRUE
          /\ final_commit_message' = ParseDraft(lines')
          /\ IF final_commit_message' = <<>>
             THEN /\ out' = out \cup {"EmptyMsg"}
                  /\ tmpExists' = Finally(tmpExists)
                  /\ pc' = "done"
                  /\ UNCHANGED <<tmpContent, exc>>
             ELSE /\ tmpContent' = final_commit_message'
                  /\ pc' = "confirm"
                  /\ UNCHANGED <<tmpExists, out, exc>>
  /\ UNCHANGED <<repoV, stageV, inspV, genV, tmpCreated, editorCalls, endV, shown>>

\* the final confirmation
ConfirmReask ==
  /\ pc = "confirm"
  /\ UNCHANGED auxV
  /\ shown' = shown \cup {"confirm"}
  /\ \E ans \in Answers :
       /\ user_input' = Lower(Strip(ans))
       /\ IF SaysYes(ans)
          THEN /\ pc' = "commit"
               /\ UNCHANGED <<tmpExists, out>>
          ELSE IF Lower(Strip(ans)) = <<"n">>
          THEN /\ out' = out \cup {"Aborted"}
               /\ tmpExists' = Finally(tmpExists)
               /\ pc' = "done"
          ELSE /\ pc' = "confirm"
               /\ UNCHANGED <<tmpExists, out>>
  /\ UNCHANGED <<repoV, stageV, inspV, genV, tmpCreated, tmpContent, editV,
                 commitCalls, commitStatus, pushCalls, exc>>
Confirm ==
  /\ pc = "confirm"
  /\ UNCHANGED auxV
  /\ shown' = shown \cup {"confirm"}
  /\ \E ans \in Answers :
       /\ user_input' = Lower(Strip(ans))
       /\ IF SaysYes(ans)
          THEN /\ pc' = "commit"
               /\ UNCHANGED <<tmpExists, out>>
          ELSE /\ out' = out \cup {"Aborted"}
               /\ tmpExists' = Finally(tmpExists)
               /\ pc' = "done"
  /\ UNCHANGED <<repoV, stageV, inspV, genV, tmpCreated, tmpContent, editV,
                 commitCalls, commitStatus, pushCalls, exc>>

\* subprocess.run(["git", "commit", "-F", tmp_path], check=False)
CommitRetry ==
  /\ pc = "commit"
  /\ UNCHANGED auxV
  /\ commitCalls' = commitCalls + 1
  /\ \/ /\ commitStatus' = 0
        /\ head' = index
        /\ pc' = "push"
        /\ UNCHANGED <<tmpExists, exc>>
     \/ /\ commitStatus' = 1
        /\ pc' = IF commitCalls = 0 THEN "commit" ELSE "push"
        /\ UNCHANGED <<head, tmpExists, exc>>
     \/ /\ exc' = TRUE
        /\ tmpExists' = Finally(tmpExists)
        /\ pc' = "done"
        /\ UNCHANGED <<head, commitStatus>>
  /\ UNCHANGED <<index, worktree, index0, stageV, inspV, genV, tmpCreated,
                 tmpContent, editV, user_input, pushCalls, shown, out>>
CommitAll ==
  /\ pc = "commit"
  /\ UNCHANGED auxV
  /\ commitCalls' = commitCalls + 1
  /\ \/ /\ commitStatus' = 0
        /\ head' = worktree /\ index' = worktree
        /\ pc' = "push"
        /\ UNCHANGED <<tmpExists, exc>>
     \/ /\ commitStatus' = 1
        /\ pc' = "push"
        /\ UNCHANGED <<head, index, tmpExists, exc>>
     \/ /\ exc' = TRUE
        /\ tmpExists' = Finally(tmpExists)
        /\ pc' = "done"
        /\ UNCHANGED <<head, index, commitStatus>>
  /\ UNCHANGED <<worktree, index0, stageV, inspV, genV, tmpCreated,
                 tmpContent, editV, user_input, pushCalls, shown, out>>
Commit ==
  /\ pc = "commit"
  /\ UNCHANGED auxV
  /\ commitCalls' = commitCalls + 1
  /\ \/ /\ commitStatus' = 0
        /\ head' = index
        /\ pc' = "push"
        /\ UNCHANGED <<tmpExists, exc>>
     \/ /\ commitStatus' = 1
        /\ pc' = "push"
        /\ UNCHANGED <<head, tmpExists, exc>>
     \/ /\ exc' = TRUE
        /\ tmpExists' = Finally(tmpExists)
        /\ pc' = "done"
        /\ UNCHANGED <<head, commitStatus>>
  /\ UNCHANGED <<index, worktree, index0, stageV, inspV, genV, tmpCreated,
                 tmpContent, editV, user_input, pushCalls, shown, out>>

\* the check for the remote 'origin' and the push
Push ==
  /\ pc = "push"
  /\ UNCHANGED auxV
  /\ \/ /\ pushCalls' = pushCalls + 1
        /\ \E raised \in BOOLEAN : exc' = raised
        /\ UNCHANGED out
     \/ /\ out' = out \cup {"NoOrigin"}
        /\ UNCHANGED <<pushCalls, exc>>
  /\ tmpExists' = Finally(tmpExists)
  /\ pc' = "done"
  /\ UNCHANGED <<repoV, stageV, inspV, genV, tmpCreated, tmpContent, editV,
                 user_input, commitCalls, commitStatus, shown>>

Next ==
  \/ Start
  \/ StageUntracked
  \/ StageUnstaged
  \/ Inspect
  \/ CheckProvider(Providers)
  \/ CreateClients
  \/ CollectDiffs
  \/ Generate(MainTexts, MainErrs)
  \/ MkTemp
  \/ WriteDraft
  \/ Editor(MainDocs)
  \/ Parse
  \/ Confirm
  \/ Commit
  \/ Push

Spec == Init /\ [][Next]_vars

\* ------------------------------------------------------------------ the draft
\* The same pipeline from the backend call on, with all short response texts
\* and all short edited documents, for a run that found its changes staged.
Alphabet == {"a", HASH, NL, " "}
DraftTexts == TextsUpTo(Alphabet, MaxMsgLen)
DraftDocs == TextsUpTo(Alphabet, MaxDocLen)

InitDraft ==
  /\ pc = "generate"
  /\ \E second \in {<<1, 1, 1>>, <<1, 0, 0>>} :
       LET r == [f \in Files |->
                   IF f = 1 THEN <<1, 2, 2>> ELSE IF f = 2 THEN second ELSE <<1, 1, 1>>]
       IN /\ head = [f \in Files |-> r[f][1]]
          /\ index = [f \in Files |-> r[f][2]]
          /\ worktree = [f \in Files |-> r[f][3]]
  /\ index0 = index /\ head0 = head
  /\ in_repo = "yes" /\ api_key = "k" /\ genBlank = FALSE
  /\ text_in = <<>> /\ text_out = <<>>
  /\ untracked_files = <<>> /\ unstaged_files = <<>>
  /\ ansUntracked = "none" /\ ansUnstaged = "none"
  /\ staged_files = StagedAndDeleted(head, index)[1]
  /\ deleted_files = StagedAndDeleted(head, index)[2]
  /\ file_diffs = FileDiffs(head, index, staged_files \o deleted_files)
  /\ provider \in ValidProviders
  /\ genCalls = 0 /\ genOutcome = "none" /\ backend = "none" /\ genErr = <<>>
  /\ commit_message = <<>>
  /\ tmpExists = FALSE /\ tmpCreated = FALSE /\ tmpContent = <<>>
  /\ editorCalls = 0 /\ lines = <<>> /\ final_commit_message = <<>>
  /\ docRead = FALSE
  /\ user_input = <<>>
  /\ commitCalls = 0 /\ commitStatus = -1 /\ pushCalls = 0
  /\ shown = {} /\ out = {} /\ exc = FALSE

NextDraft ==
  \/ Generate(DraftTexts, ErrTexts)
  \/ MkTemp
  \/ WriteDraft
  \/ Editor(DraftDocs)
  \/ Parse
  \/ Confirm
  \/ Commit
  \/ Push

SpecDraft == InitDraft /\ [][NextDraft]_vars

\* ------------------------------------------------------------------ the gateway's text
\* generate_commit_message from the response text on, for every short text
\* of letters and newlines.
MaxTextLen == 6
GatewayTexts == TextsUpTo({"a", NL}, MaxTextLen)

InitText ==
  /\ pc = "text"
  /\ text_in \in GatewayTexts
  /\ head = [f \in Files |-> 1]
  /\ index = head /\ worktree = head /\ index0 = index /\ head0 = head
  /\ Blank

\* strip, fallback for the empty message, collapse of the newline runs
Normalise ==
  /\ pc = "text"
  /\ text_out' = GenResult([kind |-> "ok", text |-> text_in]).msg
  /\ pc' = "normalised"
  /\ UNCHANGED <<repoV, stageV, inspV, genV, tmpV, editV, endV, ioV,
                 head0, in_repo, api_key, genBlank, text_in>>

\* the collapse alone, on the text as it came
CollapseOnly ==
  /\ pc = "text"
  /\ text_out' = Collapse(text_in)
  /\ pc' = "collapsed"
  /\ UNCHANGED <<repoV, stageV, inspV, genV, tmpV, editV, endV, ioV,
                 head0, in_repo, api_key, genBlank, text_in>>

NextText == Normalise \/ CollapseOnly

SpecText == InitText /\ [][NextText]_vars

\* ------------------------------------------------------------------ fairness
\* Every blocking step (a prompt, the backend call, the editor, commit, push)
\* returns: a step that can be taken is taken.
\* The runs start in a repository whose files are all in the last commit and
\* in the working tree; each may be clean, modified, staged, or removed from
\* the index (a staged deletion whose file is then untracked).
InitLive ==
  /\ Init
  /\ \A f \in Files : head[f] = 1 /\ worktree[f] # 0

SpecLive == InitLive /\ [][Next]_vars /\ WF_vars(Next)

\* the place of a stage in main()
Stages ==
  <<"start", "stage1", "stage2", "inspect", "provider", "clients", "diffs",
    "generate", "mktemp", "write", "editor", "parse", "confirm", "commit",
    "push", "done">>
Rank(p) == CHOOSE i \in 1..Len(Stages) : Stages[i] = p

\* ------------------------------------------------------------------ properties
NegotiationDone == pc \notin {"start", "stage1", "stage2"}
Negotiated == NegotiationDone /\ "NoRepo" \notin out /\ "NoChanges" \notin out
Template == WriteTemplate(commit_message, staged_files, deleted_files, file_diffs)
\* the document was read back exactly as write_commit_template wrote it
ReadUnedited == docRead /\ Join(lines) = Template
HasMarker(t) == Contains(t, MARK429) \/ Contains(t, MARKRES)
\* every line is a comment line or consists of whitespace only
AllCommentOrBlank(ls) ==
  \A i \in 1..Len(ls) :
    StartsWithHash(ls[i]) \/ \A j \in 1..Len(ls[i]) : IsSpace(ls[i][j])

\* C1: when the run has ended the scratch document does not exist, on every
\* path that created it (commit and push, empty message, declined, exception);
\* a run that ended before the backend answered with a message never created it.
CleanupInvariant ==
  /\ pc = "done" => ~tmpExists
  /\ tmpExists => tmpCreated
  /\ (pc = "done" /\ genOutcome \in {"none", "quota"}) => ~tmpCreated

CleanupWitness == pc = "done" /\ tmpCreated /\ exc /\ pushCalls = 1

\* C2: once the negotiation is over, no file of a category the user declined
\* has been staged by the run, and every file of a category the user approved
\* is staged.
StagingFollowsAnswers ==
  NegotiationDone =>
    /\ ansUntracked = "n" =>
         \A f \in UntrackedOf(index0, worktree) : index[f] = index0[f]
    /\ ansUnstaged = "n" =>
         \A f \in UnstagedOf(index0, worktree) : index[f] = index0[f]
    /\ ansUntracked = "y" =>
         \A f \in UntrackedOf(index0, worktree) : index[f] = worktree[f]
    /\ ansUnstaged = "y" =>
         \A f \in UnstagedOf(index0, worktree) : index[f] = worktree[f]

\* C3: a draft read back without any edit gives the generated message again,
\* up to trailing whitespace, whatever the message.
RoundTrip ==
  ReadUnedited => RStrip(final_commit_message) = RStrip(commit_message)

\* C4: a backend error that carries a quota marker ends the run with a notice:
\* no fallback message, no scratch document, no editor, no commit, no push.
QuotaIsFatal ==
  HasMarker(genErr) =>
    /\ pc = "done" /\ "Quota" \in out
    /\ commit_message = <<>>
    /\ ~tmpCreated /\ editorCalls = 0 /\ commitCalls = 0 /\ pushCalls = 0

QuotaWitness == pc = "done" /\ Contains(genErr, MARKRES) /\ ~Contains(genErr, MARK429)

\* C5: a backend error without a quota marker makes the fallback string the
\* message, the scratch document is written with it, and a draft left as it
\* is brings the run to the final confirmation.
OtherFailureFallsBack ==
  (genErr # <<>> /\ ~HasMarker(genErr)) =>
    /\ commit_message = FALLBACK
    /\ pc = "editor" =>
         tmpContent = WriteTemplate(FALLBACK, staged_files, deleted_files, file_diffs)
    /\ ReadUnedited =>
         /\ final_commit_message = FALLBACK
         /\ pc = "confirm" \/ "confirm" \in shown

FallbackWitness ==
  /\ genErr # <<>> /\ ~HasMarker(genErr)
  /\ ReadUnedited /\ "confirm" \in shown

\* C6: when the re-inspection finds nothing staged the run ends with a
\* message; the backend is not called, no scratch document is created and
\* nothing is committed.
NoChangesToProcess ==
  /\ (Negotiated /\ pc # "inspect" /\ commitCalls = 0 /\ CachedOf(head, index) = {}) =>
       /\ pc = "done" /\ "NoStaged" \in out
       /\ genCalls = 0 /\ ~tmpCreated
  /\ (genCalls > 0 \/ tmpCreated \/ commitCalls > 0) =>
       (staged_files # <<>> \/ deleted_files # <<>>)

NoChangesWitness ==
  /\ pc = "done" /\ "NoStaged" \in out
  /\ ansUntracked = "n" /\ ansUnstaged = "n"

\* C7: a push happens only after a commit whose exit status was zero, and
\* without a remote 'origin' no push happens and a notice is printed.
PushOnlyAfterGoodCommit ==
  /\ pushCalls > 0 => (commitCalls > 0 /\ commitStatus = 0)
  /\ "NoOrigin" \in out => pushCalls = 0

\* C8: the commit runs only with a non-empty edited message and the answer
\* 'y' to the final confirmation; any other answer skips commit and push.
CommitIsGated ==
  /\ commitCalls > 0 =>
       (final_commit_message # <<>> /\ "confirm" \in shown /\ user_input = <<"y">>)
  /\ ("confirm" \in shown /\ user_input # <<"y">>) =>
       (pc = "done" /\ commitCalls = 0 /\ pushCalls = 0)

GatedWitness ==
  commitCalls = 1 /\ user_input = <<"y">> /\ final_commit_message # <<>>

\* C9: a document left with only comment lines and whitespace-only lines
\* gives the empty message and the run aborts: no confirmation, no commit,
\* no push, and the scratch document is removed.
EmptyDraftAborts ==
  (docRead /\ AllCommentOrBlank(lines)) =>
    /\ final_commit_message = <<>>
    /\ pc = "done" /\ "EmptyMsg" \in out
    /\ "confirm" \notin shown /\ commitCalls = 0 /\ pushCalls = 0
    /\ ~tmpExists

EmptyDraftWitness ==
  /\ docRead /\ AllCommentOrBlank(lines) /\ pc = "done"
  /\ \E i \in 1..Len(lines) : StartsWithHash(lines[i])
  /\ \E i \in 1..Len(lines) : ~StartsWithHash(lines[i])

\* C10: the list a staging prompt presents and acts on is the repository's
\* state at that moment, after the staging done earlier in the run.
ListsAreFresh ==
  /\ pc = "stage1" => Range(untracked_files) = UntrackedOf(index, worktree)
  /\ pc = "stage2" => Range(unstaged_files) = UnstagedOf(index, worktree)

\* C11: a provider that is none of gemini/zai/openai, or a selected provider
\* whose API key is absent or empty, ends the run with a report; the backend
\* is not called, no scratch document is created, nothing is committed.
MissingCredentialEndsRun ==
  ((provider # "unset" /\ provider \notin {"gemini", "zai", "openai"})
     \/ api_key \in {"none", ""}) =>
    /\ pc = "done"
    /\ "BadProvider" \in out \/ "NoKey" \in out
    /\ genCalls = 0 /\ ~tmpCreated /\ commitCalls = 0

MissingCredentialWitness == pc = "done" /\ provider = "openai" /\ api_key = ""

\* C12: a successful response that is empty or only whitespace gives the
\* fallback message as a non-quota failure does and the run goes on to the
\* draft; the message handed to the draft step is never empty.
BlankResponseFallsBack ==
  /\ genBlank =>
       /\ commit_message = FALLBACK
       /\ pc = "mktemp" \/ tmpCreated
       /\ pc = "editor" =>
            tmpContent = WriteTemplate(FALLBACK, staged_files, deleted_files, file_diffs)
  /\ (pc = "mktemp" \/ tmpCreated) => commit_message # <<>>

BlankResponseWitness == genBlank /\ pc = "editor" /\ commit_message = FALLBACK

\* C14: the staged-modified and the staged-deleted list share no path, their
\* union is the set of paths with staged changes, and one diff is collected
\* per staged path.
StagedListsPartition ==
  /\ (Negotiated /\ pc # "inspect") =>
       /\ Range(staged_files) \cap Range(deleted_files) = {}
       /\ Range(staged_files) \cup Range(deleted_files) = CachedOf(head0, index)
       /\ Len(staged_files) + Len(deleted_files) = Cardinality(CachedOf(head0, index))
  /\ (pc = "generate" \/ genCalls > 0) =>
       /\ {file_diffs[i][1] : i \in 1..Len(file_diffs)} = CachedOf(head0, index)
       /\ Len(file_diffs) = Cardinality(CachedOf(head0, index))

StagedListsWitness ==
  pc = "generate" /\ staged_files # <<>> /\ deleted_files # <<>>

\* C15: the backend is called at most once and through the one variant the
\* provider selects, the editor is started at most once, commit and push run
\* at most once each, whatever the outcome of a step.
NothingIsRetried ==
  /\ genCalls <= 1 /\ editorCalls <= 1 /\ commitCalls <= 1 /\ pushCalls <= 1
  /\ genCalls = 0 => backend = "none"
  /\ genCalls = 1 => backend = (IF provider = "gemini" THEN "native" ELSE "compat")

NothingIsRetriedWitness ==
  pc = "done" /\ genErr # <<>> /\ commitStatus = 1 /\ pushCalls = 1 /\ exc

\* C13: collapsing the newline runs is idempotent: a second application
\* changes nothing, and one application leaves no run of three newlines.
CollapseIdempotent ==
  pc \in {"normalised", "collapsed"} =>
    /\ Collapse(text_out) = text_out
    /\ ~Contains(text_out, <<NL, NL, NL>>)

CollapseWitness ==
  /\ pc = "normalised" /\ Contains(text_in, <<"a", NL, NL, NL, NL, "a">>)
  /\ Contains(text_out, <<"a", NL, NL, "a">>)

\* C17: the run changes the staging area only in the two staging prompts, so
\* the paths listed in the draft and sent in the prompt are the paths staged
\* when the commit is executed.
StagingFrame ==
  [][/\ pc \notin {"stage1", "stage2"} => index' = index
     /\ worktree' = worktree
     /\ pc' = "commit" =>
          /\ Range(staged_files') \cup Range(deleted_files') = CachedOf(head', index')
          /\ {file_diffs'[i][1] : i \in 1..Len(file_diffs')} = CachedOf(head', index')]_vars

StagingFrameWitness ==
  /\ pc = "push" /\ commitStatus = 0
  /\ index # index0 /\ index # worktree

\* C18: with a clean working tree, or outside a repository, the run ends at
\* once: no staging prompt, staging area unchanged, no backend call, no
\* scratch document, no commit.
CleanTreeEndsAtOnce ==
  (/\ pc # "start"
   /\ \/ in_repo = "no"
      \/ /\ CachedOf(head0, index0) = {}
         /\ UnstagedOf(index0, worktree) = {}
         /\ UntrackedOf(index0, worktree) = {}) =>
    /\ pc = "done"
    /\ "NoRepo" \in out \/ "NoChanges" \in out
    /\ shown = {} /\ index = index0
    /\ genCalls = 0 /\ ~tmpCreated /\ commitCalls = 0

CleanTreeWitness ==
  /\ pc = "done" /\ in_repo = "yes" /\ CachedOf(head0, index0) = {}
  /\ UnstagedOf(index0, worktree) = {} /\ UntrackedOf(index0, worktree) = {}

\* C19: when every blocking step returns, every run reaches its end, and no
\* step goes back to an earlier stage.
Termination ==
  /\ <>(pc = "done")
  /\ [][Rank(pc') > Rank(pc)]_vars

TerminationWitness == pc = "done" /\ pushCalls = 1 /\ commitStatus = 0
====
